---------------------------- MODULE Spec2Model ----------------------------
(***************************************************************************)
(* Model of the exception-handling modernization scripts.                 *)
(*                                                                         *)
(*   modernize_comprehensive.py  ExceptionModernizer (patterns, run)       *)
(*   modernize_exceptions.py     OLD_PATTERNS, modernize_file              *)
(*   search_exceptions.py        find_old_patterns                         *)
(*   get_cs_files, find_cs_files the scan of a directory tree (SpecScan)   *)
(*                                                                         *)
(* A file's content is a sequence of lexical tokens; every token is a      *)
(* string holding the token's text.  Whitespace is explicit: " " is a      *)
(* blank and "\n" a line break.  A regular expression is a sequence of     *)
(* elements, each a literal token or one of the classes below, and is      *)
(* matched the way re matches it: leftmost, non-overlapping, the scan      *)
(* resuming at the end of each match.  \w+ spans exactly one word token    *)
(* (words in the contents are always separated by a non-word token).       *)
(***************************************************************************)
EXTENDS Integers, Sequences, FiniteSets, TLC

VARIABLES
    \* ---- ExceptionModernizer.run over the files of a tree (Spec)
    dry_run,                \* self.dry_run
    disk,                   \* the content of every file on disk
    idx,                    \* position of the file loop in cs_files
    pc,                     \* "loop", "open", "write", "done"
    new_content,            \* process_file's new_content, while it writes
    total_files_processed,  \* self.total_files_processed
    total_files_changed,    \* self.total_files_changed
    total_replacements,     \* self.total_replacements
    changes_by_file,        \* self.changes_by_file
    exit_code,              \* the exit status of the process, -1 while it runs
    \* history of the run, kept to state the properties
    orig,                   \* the content of every file before the run
    attempted,              \* files process_file was called on
    errors,                 \* files whose processing raised (printed "Error")
    opened,                 \* files opened for writing
    reported,               \* files process_file returned True for
    \* ---- one rewrite pass over one content (SpecPass)
    source,      \* the statements the input content was rendered from
    content,     \* the input content (token sequence)
    first,       \* result of the first pass:  [content, replacements]
    second,      \* result of the second pass: [content, replacements]
    oldFirst,    \* first pass of modernize_file's loop over OLD_PATTERNS
    oldSecond,   \* second pass of the same
    found,       \* result list of find_old_patterns
    trace,       \* the first pass again, with the origin of every token
    oldTrace,    \* the same for the pass of modernize_file
    phase,       \* which of the passes have run
    \* ---- the scan of a directory tree (SpecScan)
    root_dir,    \* the parts of the root directory's path
    tree,        \* the entries below the root directory
    scanned,     \* the paths get_cs_files returned
    walked,      \* the paths find_cs_files returned
    step         \* which of the scans have run

passVars ==
    <<source, content, first, second, oldFirst, oldSecond, found, trace,
      oldTrace, phase>>

runVars == <<dry_run, disk, idx, pc, new_content, total_files_processed,
             total_files_changed, total_replacements, changes_by_file,
             exit_code, orig, attempted, errors, opened, reported>>

scanVars == <<root_dir, tree, scanned, walked, step>>

vars == <<runVars, passVars, scanVars>>

-----------------------------------------------------------------------------
(* Tokens *)

Idents == {"foo", "Foo", "bar"}

Keywords == {"if", "is", "null", "throw", "new", "nameof", "return",
             "ArgumentNullException", "ThrowIfNull"}

\* str.lower() on the identifiers of the model (keywords are written in
\* the case the patterns spell them in)
Lower(t) == IF t = "Foo" THEN "foo" ELSE t

\* \s
IsSpace(t) == t \in {" ", "\n"}

\* \w+
IsWord(t) == t \in Idents \cup Keywords

-----------------------------------------------------------------------------
(* Regular-expression elements *)

S0  == "\\s*"
S1  == "\\s+"
NL  == "\\n"
CAP == "(\\w+)"
W   == "\\w+"
REF == "\\1"
QUOTE == "\""

\* end of the whitespace run that starts at position p of s
RECURSIVE SkipSpace(_, _)
SkipSpace(s, p) ==
    IF p <= Len(s) /\ IsSpace(s[p]) THEN SkipSpace(s, p + 1) ELSE p

\* re.IGNORECASE folds both sides of a comparison, back-references included
Fold(t, ic) == IF ic THEN Lower(t) ELSE t

\* The matcher states reached from state st = <<position, group 1>> by
\* consuming element e of the pattern.
StepElem(e, s, st, ic) ==
    LET p   == st[1]
        cap == st[2]
        ok  == p <= Len(s)
    IN  CASE e = S0  -> {<<q, cap>> : q \in p .. SkipSpace(s, p)}
          [] e = S1  -> {<<q, cap>> : q \in (p + 1) .. SkipSpace(s, p)}
          [] e = NL  -> IF ok /\ s[p] = "\n" THEN {<<p + 1, cap>>} ELSE {}
          [] e = CAP -> IF ok /\ IsWord(s[p]) THEN {<<p + 1, s[p]>>} ELSE {}
          [] e = W   -> IF ok /\ IsWord(s[p]) THEN {<<p + 1, cap>>} ELSE {}
          [] e = REF -> IF ok /\ Fold(s[p], ic) = Fold(cap, ic)
                        THEN {<<p + 1, cap>>} ELSE {}
          [] OTHER   -> IF ok /\ Fold(s[p], ic) = Fold(e, ic)
                        THEN {<<p + 1, cap>>} ELSE {}

\* The states after elements k..Len(pat) of pat, from the set sts.
RECURSIVE RunFrom(_, _, _, _, _)
RunFrom(pat, k, s, sts, ic) ==
    IF k > Len(pat) \/ sts = {} THEN sts
    ELSE RunFrom(pat, k + 1, s,
                 UNION {StepElem(pat[k], s, st, ic) : st \in sts}, ic)

\* pattern.match(s, i): the set of <<end, group 1>> of a match starting at i
MatchAt(pat, s, i, ic) == RunFrom(pat, 1, s, {<<i, "">>}, ic)

\* re.finditer(pat, s): the matches from position i on, left to right,
\* each [start, end) with its group 1.  Every pattern of the scripts
\* begins with a literal, so a match starts only at that token.
RECURSIVE FindIter(_, _, _, _)
FindIter(pat, s, i, ic) ==
    IF i > Len(s) THEN <<>>
    ELSE IF Fold(s[i], ic) # Fold(pat[1], ic) THEN FindIter(pat, s, i + 1, ic)
    ELSE LET ms == MatchAt(pat, s, i, ic)
         IN  IF ms = {} THEN FindIter(pat, s, i + 1, ic)
             ELSE LET m == CHOOSE x \in ms : \A y \in ms : y[1] <= x[1]
                  IN  <<[start |-> i, end |-> m[1], param |-> m[2]]>>
                      \o FindIter(pat, s, m[1], ic)

\* a template that still spells the old idiom (in its 'is null' form)
ReplacementIdiom(cap) ==
    <<"if", " ", "(", cap, " ", "is", " ", "null", ")", " ", "throw", " ",
      "new", " ", "ArgumentNullException", "(", "nameof", "(", cap, ")",
      ")", ";">>

\* The replacement template r'ArgumentNullException.ThrowIfNull(\1);'
Replacement(cap) ==
    <<"ArgumentNullException", ".", "ThrowIfNull", "(", cap, ")", ";">>

\* pattern.sub(template, s) given the matches ms of the pattern in s (the
\* ones findall returns): the text between the matches copied, each match
\* from the k-th on replaced by the expanded template; i is the position
\* the copy has reached.
RECURSIVE SubFrom(_, _, _, _)
SubFrom(s, ms, k, i) ==
    IF k > Len(ms) THEN SubSeq(s, i, Len(s))
    ELSE SubSeq(s, i, ms[k].start - 1) \o Replacement(ms[k].param)
         \o SubFrom(s, ms, k + 1, ms[k].end)

-----------------------------------------------------------------------------
(* modernize_comprehensive.py: the six patterns of modernize_patterns *)

\* Pattern 1: basic if-null-throw (single line); re.IGNORECASE
pattern1 ==
    <<"if", S0, "(", S0, CAP, S0, "==", S0, "null", S0, ")", S0,
      "throw", S1, "new", S1, "ArgumentNullException", S0, "(", S0,
      "nameof", S0, "(", S0, REF, S0, ")", S0, ")", S0, ";">>

\* Pattern 2: multi-line if-null-throw; re.MULTILINE | re.IGNORECASE
pattern2 ==
    <<"if", S0, "(", S0, CAP, S0, "==", S0, "null", S0, ")", S0, NL, S0,
      "throw", S1, "new", S1, "ArgumentNullException", S0, "(", S0,
      "nameof", S0, "(", S0, REF, S0, ")", S0, ")", S0, ";">>

\* Pattern 3: with braces; re.MULTILINE | re.DOTALL | re.IGNORECASE
pattern3 ==
    <<"if", S0, "(", S0, CAP, S0, "==", S0, "null", S0, ")", S0, "{", S0,
      NL, S0, "throw", S1, "new", S1, "ArgumentNullException", S0, "(", S0,
      "nameof", S0, "(", S0, REF, S0, ")", S0, ")", S0, ";", S0, NL, S0,
      "}">>

\* Pattern 4: 'is null' instead of '== null'; re.IGNORECASE
pattern4 ==
    <<"if", S0, "(", S0, CAP, S1, "is", S1, "null", S0, ")", S0,
      "throw", S1, "new", S1, "ArgumentNullException", S0, "(", S0,
      "nameof", S0, "(", S0, REF, S0, ")", S0, ")", S0, ";">>

\* Pattern 5: multi-line with 'is null'; re.MULTILINE | re.IGNORECASE
pattern5 ==
    <<"if", S0, "(", S0, CAP, S1, "is", S1, "null", S0, ")", S0, NL, S0,
      "throw", S1, "new", S1, "ArgumentNullException", S0, "(", S0,
      "nameof", S0, "(", S0, REF, S0, ")", S0, ")", S0, ";">>

\* Pattern 6: string parameter; re.IGNORECASE
pattern6 ==
    <<"if", S0, "(", S0, CAP, S0, "==", S0, "null", S0, ")", S0,
      "throw", S1, "new", S1, "ArgumentNullException", S0, "(", S0,
      QUOTE, W, QUOTE, S0, ")", S0, ";">>

Patterns == <<pattern1, pattern2, pattern3, pattern4, pattern5, pattern6>>

\* One step of modernize_patterns: matches = pattern.findall(content);
\* if matches: content = pattern.sub(...); replacements += len(matches)
ApplyPattern(pat, r, ic) ==
    LET matches == FindIter(pat, r.content, 1, ic)
    IN  IF matches # <<>>
        THEN [content      |-> SubFrom(r.content, matches, 1, 1),
              replacements |-> r.replacements + Len(matches)]
        ELSE r

RECURSIVE ApplyAll(_, _, _, _)
ApplyAll(pats, k, r, ic) ==
    IF k > Len(pats) THEN r
    ELSE ApplyAll(pats, k + 1, ApplyPattern(pats[k], r, ic), ic)

\* ExceptionModernizer.modernize_patterns(content) -> (content, replacements)
modernize_patterns(c) ==
    ApplyAll(Patterns, 1, [content |-> c, replacements |-> 0], TRUE)

\* The same pass with the history of every token: origin[i] is the
\* position in the argument of modernize_patterns that token i of the
\* working content was copied from, 0 for a token a replacement produced;
\* replaced lists, for every match that was replaced, the pattern and the
\* origins of the tokens of the match.

\* pattern.sub on the origins: the tokens between the matches keep their
\* origin, the tokens of an expanded template have none
RECURSIVE SubOrigins(_, _, _, _)
SubOrigins(o, ms, k, i) ==
    IF k > Len(ms) THEN SubSeq(o, i, Len(o))
    ELSE SubSeq(o, i, ms[k].start - 1)
         \o [j \in 1 .. Len(Replacement(ms[k].param)) |-> 0]
         \o SubOrigins(o, ms, k + 1, ms[k].end)

\* one step of modernize_patterns (findall, sub) on a traced content
TracePattern(pats, k, t, ic) ==
    LET matches == FindIter(pats[k], t.content, 1, ic)
    IN  IF matches # <<>>
        THEN [content  |-> SubFrom(t.content, matches, 1, 1),
              origin   |-> SubOrigins(t.origin, matches, 1, 1),
              replaced |-> t.replaced \o
                  [j \in 1 .. Len(matches) |->
                      [pattern |-> k,
                       from    |-> SubSeq(t.origin, matches[j].start,
                                          matches[j].end - 1)]]]
        ELSE t

RECURSIVE TraceAll(_, _, _, _)
TraceAll(pats, k, t, ic) ==
    IF k > Len(pats) THEN t
    ELSE TraceAll(pats, k + 1, TracePattern(pats, k, t, ic), ic)

\* the working content before the first pattern
Untouched(c) ==
    [content |-> c, origin |-> [i \in 1 .. Len(c) |-> i], replaced |-> <<>>]

\* modernize_patterns(c), traced
trace_patterns(c) ==
    TraceAll(Patterns, 1, Untouched(c), TRUE)

-----------------------------------------------------------------------------
(* modernize_exceptions.py: OLD_PATTERNS and the loop of modernize_file *)

\* flags = re.MULTILINE | re.DOTALL: no IGNORECASE
OLD_PATTERNS ==
    << \* basic if-null-throw pattern (multi-line)
       <<"if", S0, "(", S0, CAP, S0, "==", S0, "null", S0, ")", S0, NL, S0,
         "throw", S1, "new", S1, "ArgumentNullException", S0, "(", S0,
         "nameof", S0, "(", S0, REF, S0, ")", S0, ")", S0, ";">>,
       \* alternative with 'is null'
       <<"if", S0, "(", S0, CAP, S0, "is", S0, "null", S0, ")", S0, NL, S0,
         "throw", S1, "new", S1, "ArgumentNullException", S0, "(", S0,
         "nameof", S0, "(", S0, REF, S0, ")", S0, ")", S0, ";">>,
       \* one-line version
       <<"if", S0, "(", S0, CAP, S0, "==", S0, "null", S0, ")", S0,
         "throw", S1, "new", S1, "ArgumentNullException", S0, "(", S0,
         "nameof", S0, "(", S0, REF, S0, ")", S0, ")", S0, ";">>,
       \* with braces
       <<"if", S0, "(", S0, CAP, S0, "==", S0, "null", S0, ")", S0, "{",
         S0, NL, S0, "throw", S1, "new", S1, "ArgumentNullException", S0,
         "(", S0, "nameof", S0, "(", S0, REF, S0, ")", S0, ")", S0, ";",
         S0, NL, S0, "}">> >>

\* the for-loop of modernize_file over OLD_PATTERNS
modernize_old(c) ==
    ApplyAll(OLD_PATTERNS, 1, [content |-> c, replacements |-> 0], FALSE)

\* the loop of modernize_file, traced
trace_old(c) ==
    TraceAll(OLD_PATTERNS, 1, Untouched(c), FALSE)

-----------------------------------------------------------------------------
(* search_exceptions.py: find_old_patterns *)

\* the patterns list; flags = re.IGNORECASE | re.MULTILINE
SearchPatterns ==
    << <<"if", S0, "(", S0, W, S0, "==", S0, "null", S0, ")", S0,
         "throw", S1, "new", S1, "ArgumentNullException", S0, "(">>,
       <<"if", S0, "(", S0, W, S0, "==", S0, "null", S0, ")", S0, "{", S0,
         "throw", S1, "new", S1, "ArgumentNullException", S0, "(">>,
       <<"if", S0, "(", S0, W, S1, "is", S1, "null", S0, ")", S0,
         "throw", S1, "new", S1, "ArgumentNullException", S0, "(">>,
       <<"if", S0, "(", S0, W, S0, "==", S0, "null", S0, ")", S0, NL, S0,
         "throw", S1, "new", S1, "ArgumentNullException", S0, "(">> >>

\* number of "\n" in s[1 .. n]
RECURSIVE CountNewlines(_, _)
CountNewlines(s, n) ==
    IF n = 0 THEN 0
    ELSE CountNewlines(s, n - 1) + (IF s[n] = "\n" THEN 1 ELSE 0)

\* the result entries one pattern adds for one content: the span of
\* match.group(0) and line_num = content[:match.start()].count('\n') + 1
RECURSIVE Entries(_, _, _)
Entries(ms, k, s) ==
    IF k > Len(ms) THEN <<>>
    ELSE <<[start |-> ms[k].start, end |-> ms[k].end,
            line  |-> CountNewlines(s, ms[k].start - 1) + 1]>>
         \o Entries(ms, k + 1, s)

\* for pattern in patterns: for match in re.finditer(...): results.append
RECURSIVE SearchAll(_, _, _)
SearchAll(pats, k, s) ==
    IF k > Len(pats) THEN <<>>
    ELSE Entries(FindIter(pats[k], s, 1, TRUE), 1, s)
         \o SearchAll(pats, k + 1, s)

find_old_patterns(c) == SearchAll(SearchPatterns, 1, c)

-----------------------------------------------------------------------------
(* Input contents *)

MaxStmts == 2

\* the layouts of the idiom: on one line, the throw on the next line, the
\* throw in braces
Forms == {"line", "multi", "brace"}

\* One statement of a C# method body.
\*   kind "idiom":  if (a <test> null) [{] throw new
\*                  ArgumentNullException(nameof(b) | "b"); [}]
\*   kind "modern": ArgumentNullException.ThrowIfNull(a);
\*   kind "other":  return a;
Stmts ==
    \* every layout, with the identifiers in agreement
    [kind : {"idiom"}, form : Forms, test : {"==", "is"}, a : {"foo"},
     arg : {"nameof", "string"}, b : {"foo"}]
    \cup
    \* the one-line layout naming another identifier
    [kind : {"idiom"}, form : {"line"}, test : {"=="}, a : {"foo"},
     arg : {"nameof", "string"}, b : {"Foo", "bar"}]
    \cup
    [kind : {"modern", "other"}, form : {"line"}, test : {"=="},
     a : {"foo"}, arg : {"nameof"}, b : {"foo"}]

IfHead(st) == <<"if", " ", "(", st.a, " ", st.test, " ", "null", ")">>

Arg(st) ==
    IF st.arg = "nameof" THEN <<"nameof", "(", st.b, ")">>
    ELSE <<QUOTE, st.b, QUOTE>>

Throw(st) ==
    <<"throw", " ", "new", " ", "ArgumentNullException", "(">> \o Arg(st)
    \o <<")", ";">>

Render(st) ==
    CASE st.kind = "modern" ->
           <<"ArgumentNullException", ".", "ThrowIfNull", "(", st.a, ")", ";">>
      [] st.kind = "other" -> <<"return", " ", st.a, ";">>
      [] st.form = "line"  -> IfHead(st) \o <<" ">> \o Throw(st)
      [] st.form = "multi" -> IfHead(st) \o <<"\n", " ">> \o Throw(st)
      [] OTHER -> IfHead(st) \o <<" ", "{", "\n", " ">> \o Throw(st)
                  \o <<"\n", "}">>

\* the statements one per line
RECURSIVE RenderAll(_)
RenderAll(sts) ==
    IF sts = <<>> THEN <<>>
    ELSE Render(Head(sts)) \o <<"\n">> \o RenderAll(Tail(sts))

SeqsUpTo(S, n) == UNION {[1 .. k -> S] : k \in 0 .. n}

NoResult == [content |-> <<>>, replacements |-> 0]

NoTrace == [content |-> <<>>, origin |-> <<>>, replaced |-> <<>>]

-----------------------------------------------------------------------------
(* The scan of a directory tree: get_cs_files and find_cs_files *)

\* A file or directory name is a pair <<stem, ext>>, the text before and
\* after its last dot (ext is "" for a name without one): <<"Program",
\* "cs">> is Program.cs, <<"bin", "">> is bin, <<"", "git">> is .git.  A
\* path is the sequence of its parts.  An entry of the tree is the path of
\* a file or directory relative to the root directory, and its kind.

\* the glob '*.cs' and file.endswith('.cs')
EndsWithCs(name) == name[2] = "cs"

\* excluded_dirs of get_cs_files
excluded_dirs ==
    {<<"bin", "">>, <<"obj", "">>, <<"", "git">>, <<"", "vs">>,
     <<"packages", "">>, <<"node_modules", "">>, <<"TestResults", "">>}

\* the list find_cs_files removes from dirs
SkippedDirs ==
    {<<"bin", "">>, <<"obj", "">>, <<"", "git">>, <<"", "vs">>,
     <<"packages", "">>, <<"node_modules", "">>}

\* the name of an entry
Name(e) == e.path[Len(e.path)]

\* file_path.parts: the parts of the root directory, then those below it
Parts(root, e) == root \o e.path

\* self.root_dir.rglob('*.cs'): every entry below root, file or directory,
\* whose name matches
rglob(t) == {e \in t : EndsWithCs(Name(e))}

\* ExceptionModernizer.get_cs_files
get_cs_files(root, t) ==
    {Parts(root, e) : e \in
        {f \in rglob(t) :
            ~ \E excluded \in excluded_dirs :
                 \E i \in DOMAIN Parts(root, f) :
                    Parts(root, f)[i] = excluded}}

\* the entries of the directory d (a path relative to root, <<>> for root)
Children(t, d) ==
    {e \in t : /\ Len(e.path) = Len(d) + 1
               /\ SubSeq(e.path, 1, Len(d)) = d}

\* os.walk from the directory d, with dirs pruned on the way down
RECURSIVE Walk(_, _, _)
Walk(root, t, d) ==
    LET files == {e \in Children(t, d) : e.kind = "file"}
        dirs  == {e \in Children(t, d) :
                     e.kind = "dir" /\ Name(e) \notin SkippedDirs}
    IN  {Parts(root, e) : e \in {f \in files : EndsWithCs(Name(f))}}
        \cup UNION {Walk(root, t, e.path) : e \in dirs}

\* find_cs_files(root_dir)
find_cs_files(root, t) == Walk(root, t, <<>>)

InitScanIdle ==
    /\ root_dir = <<>>
    /\ tree = {}
    /\ scanned = {}
    /\ walked = {}
    /\ step = "idle"

-----------------------------------------------------------------------------
(* SpecPass: the pure functions applied to one content *)

InitRunIdle ==
    /\ dry_run = TRUE
    /\ disk = <<>>
    /\ orig = <<>>
    /\ idx = 1
    /\ pc = "idle"
    /\ new_content = <<>>
    /\ total_files_processed = 0
    /\ total_files_changed = 0
    /\ total_replacements = 0
    /\ changes_by_file = <<>>
    /\ exit_code = -1
    /\ attempted = {}
    /\ errors = {}
    /\ opened = {}
    /\ reported = {}

InitPass ==
    /\ InitRunIdle
    /\ InitScanIdle
    /\ source \in SeqsUpTo(Stmts, MaxStmts)
    /\ content = RenderAll(source)
    /\ first = NoResult
    /\ second = NoResult
    /\ oldFirst = NoResult
    /\ oldSecond = NoResult
    /\ found = <<>>
    /\ trace = NoTrace
    /\ oldTrace = NoTrace
    /\ phase = "input"

\* new_content, replacements = self.modernize_patterns(original_content, ...)
FirstPass ==
    /\ phase = "input"
    /\ first' = modernize_patterns(content)
    /\ phase' = "first"
    /\ UNCHANGED <<source, content, second, oldFirst, oldSecond, found,
                   trace, oldTrace, runVars, scanVars>>

\* a second run reads what the first wrote
SecondPass ==
    /\ phase = "first"
    /\ second' = modernize_patterns(first.content)
    /\ phase' = "second"
    /\ UNCHANGED <<source, content, first, oldFirst, oldSecond, found,
                   trace, oldTrace, runVars, scanVars>>

\* modernize_file of modernize_exceptions.py on the same content
OldFirstPass ==
    /\ phase = "second"
    /\ oldFirst' = modernize_old(content)
    /\ phase' = "oldFirst"
    /\ UNCHANGED <<source, content, first, second, oldSecond, found,
                   trace, oldTrace, runVars, scanVars>>

OldSecondPass ==
    /\ phase = "oldFirst"
    /\ oldSecond' = modernize_old(oldFirst.content)
    /\ phase' = "oldSecond"
    /\ UNCHANGED <<source, content, first, second, oldFirst, found,
                   trace, oldTrace, runVars, scanVars>>

\* find_old_patterns on the same content
Search ==
    /\ phase = "oldSecond"
    /\ found' = find_old_patterns(content)
    /\ phase' = "searched"
    /\ UNCHANGED <<source, content, first, second, oldFirst, oldSecond,
                   trace, oldTrace, runVars, scanVars>>

\* the first pass on the same content, traced
TracePass ==
    /\ phase = "searched"
    /\ trace' = trace_patterns(content)
    /\ phase' = "traced"
    /\ UNCHANGED <<source, content, first, second, oldFirst, oldSecond,
                   found, oldTrace, runVars, scanVars>>

\* the pass of modernize_file on the same content, traced
OldTracePass ==
    /\ phase = "traced"
    /\ oldTrace' = trace_old(content)
    /\ phase' = "oldTraced"
    /\ UNCHANGED <<source, content, first, second, oldFirst, oldSecond,
                   found, trace, runVars, scanVars>>

NextPass ==
    \/ FirstPass
    \/ SecondPass
    \/ OldFirstPass
    \/ OldSecondPass
    \/ Search
    \/ TracePass
    \/ OldTracePass

SpecPass == InitPass /\ [][NextPass]_vars

-----------------------------------------------------------------------------
(* Spec: ExceptionModernizer.run *)

NumFiles == 2

\* at most this many tokens of a failed write reach the disk
MaxPartial == 2

Files == 1 .. NumFiles

\* cs_files = self.get_cs_files(): the files in the order they are processed
cs_files == [i \in 1 .. NumFiles |-> i]

Idiom(form, b) ==
    [kind |-> "idiom", form |-> form, test |-> "==", a |-> "foo",
     arg |-> "nameof", b |-> b]

Modern ==
    [kind |-> "modern", form |-> "line", test |-> "==", a |-> "foo",
     arg |-> "nameof", b |-> "foo"]

\* The contents a file of the tree may hold:
\*   only the canonical call; one old idiom; an idiom naming two different
\*   identifiers; three old idioms (one per layout) and one canonical call.
FileContents ==
    { RenderAll(<<Modern>>),
      RenderAll(<<Idiom("line", "foo")>>),
      RenderAll(<<Idiom("line", "bar")>>),
      RenderAll(<<Idiom("line", "foo"), Idiom("multi", "foo"), Modern,
                  Idiom("brace", "foo")>>) }

\* a guard that lets a file without replacements through
HasChangesAlways(r) == r >= 0

\* line 111: if replacements > 0
HasChanges(r) == r > 0

\* a write that does not look at the mode
WritesBackAlways == TRUE

\* line 116: if not self.dry_run
WritesBack == ~dry_run

\* an error that leaves the file loop
AfterErrorAbort(i) == NumFiles + 1

\* lines 125-127 and 140: the except clause returns False and the loop
\* goes on with the file after position i
AfterError(i) == i + 1

InitPassIdle ==
    /\ source = <<>>
    /\ content = <<>>
    /\ first = NoResult
    /\ second = NoResult
    /\ oldFirst = NoResult
    /\ oldSecond = NoResult
    /\ found = <<>>
    /\ trace = NoTrace
    /\ oldTrace = NoTrace
    /\ phase = "idle"

\* ExceptionModernizer.__init__ and the tree it is started on
Init ==
    /\ dry_run \in BOOLEAN
    /\ disk \in [Files -> FileContents]
    /\ orig = disk
    /\ idx = 1
    /\ pc = "loop"
    /\ new_content = <<>>
    /\ total_files_processed = 0
    /\ total_files_changed = 0
    /\ total_replacements = 0
    /\ changes_by_file = [f \in {} |-> 0]
    /\ exit_code = -1
    /\ attempted = {}
    /\ errors = {}
    /\ opened = {}
    /\ reported = {}
    /\ InitPassIdle
    /\ InitScanIdle

Current == cs_files[idx]

\* process_file, lines 103-104 raising: open(file_path, 'r') or f.read()
\* fails; the except clause prints the error and returns False.
ReadError ==
    /\ pc = "loop" /\ idx <= NumFiles
    /\ attempted' = attempted \cup {Current}
    /\ errors' = errors \cup {Current}
    /\ idx' = AfterError(idx)
    /\ UNCHANGED <<dry_run, disk, pc, new_content, total_files_processed,
                   total_files_changed, total_replacements, changes_by_file,
                   exit_code, orig, opened, reported, passVars,
                   scanVars>>

\* process_file, lines 103-123 up to the write: the file is read, the
\* patterns applied and the counters updated; without replacements it
\* returns False, in a dry run it returns True, else it goes on to write.
ReadAndCount ==
    /\ pc = "loop" /\ idx <= NumFiles
    /\ LET r == modernize_patterns(disk[Current])
       IN  /\ attempted' = attempted \cup {Current}
           /\ total_files_processed' = total_files_processed + 1
           /\ IF HasChanges(r.replacements)
              THEN /\ total_files_changed' = total_files_changed + 1
                   /\ total_replacements' =
                          total_replacements + r.replacements
                   /\ changes_by_file' =
                          [f \in DOMAIN changes_by_file \cup {Current} |->
                              IF f = Current THEN r.replacements
                              ELSE changes_by_file[f]]
                   /\ IF WritesBack
                      THEN /\ pc' = "open"
                           /\ new_content' = r.content
                           /\ UNCHANGED <<idx, reported>>
                      ELSE /\ reported' = reported \cup {Current}
                           /\ idx' = idx + 1
                           /\ UNCHANGED <<pc, new_content>>
              ELSE /\ idx' = idx + 1
                   /\ UNCHANGED <<total_files_changed, total_replacements,
                                  changes_by_file, pc, new_content,
                                  reported>>
    /\ UNCHANGED <<dry_run, disk, exit_code, orig, errors, opened, passVars,
                   scanVars>>

\* line 118: open(file_path, 'w') succeeds and truncates the file
OpenForWrite ==
    /\ pc = "open"
    /\ disk' = [disk EXCEPT ![Current] = <<>>]
    /\ opened' = opened \cup {Current}
    /\ pc' = "write"
    /\ UNCHANGED <<dry_run, idx, new_content, total_files_processed,
                   total_files_changed, total_replacements, changes_by_file,
                   exit_code, orig, attempted, errors, reported, passVars,
                   scanVars>>

\* line 118 raising (no permission to write): the file is as it was
OpenError ==
    /\ pc = "open"
    /\ errors' = errors \cup {Current}
    /\ pc' = "loop"
    /\ idx' = AfterError(idx)
    /\ new_content' = <<>>
    /\ UNCHANGED <<dry_run, disk, total_files_processed, total_files_changed,
                   total_replacements, changes_by_file, exit_code, orig,
                   attempted, opened, reported, passVars,
                   scanVars>>

\* lines 119-121: f.write(new_content), the file closed, return True
WriteContent ==
    /\ pc = "write"
    /\ disk' = [disk EXCEPT ![Current] = new_content]
    /\ reported' = reported \cup {Current}
    /\ pc' = "loop"
    /\ idx' = idx + 1
    /\ new_content' = <<>>
    /\ UNCHANGED <<dry_run, total_files_processed, total_files_changed,
                   total_replacements, changes_by_file, exit_code, orig,
                   attempted, errors, opened, passVars,
                   scanVars>>

\* line 119 raising (disk full, I/O error): a proper prefix of the new
\* content has reached the truncated file
WriteError ==
    /\ pc = "write"
    /\ \E k \in 0 .. MaxPartial :
          /\ k < Len(new_content)
          /\ disk' = [disk EXCEPT ![Current] = SubSeq(new_content, 1, k)]
    /\ errors' = errors \cup {Current}
    /\ pc' = "loop"
    /\ idx' = AfterError(idx)
    /\ new_content' = <<>>
    /\ UNCHANGED <<dry_run, total_files_processed, total_files_changed,
                   total_replacements, changes_by_file, exit_code, orig,
                   attempted, opened, reported, passVars,
                   scanVars>>

\* run, lines 147-158, and main returning: the summary is printed and the
\* process ends with the status of a script that returns normally
Summary ==
    /\ pc = "loop" /\ idx > NumFiles
    /\ pc' = "done"
    /\ exit_code' = 0
    /\ UNCHANGED <<dry_run, disk, idx, new_content, total_files_processed,
                   total_files_changed, total_replacements, changes_by_file,
                   orig, attempted, errors, opened, reported, passVars,
                   scanVars>>

Next ==
    \/ ReadError
    \/ ReadAndCount
    \/ OpenForWrite
    \/ OpenError
    \/ WriteContent
    \/ WriteError
    \/ Summary

Spec == Init /\ [][Next]_vars

-----------------------------------------------------------------------------
(* SpecScan: the two scans of one directory tree *)

Dir(p)  == [path |-> p, kind |-> "dir"]
File(p) == [path |-> p, kind |-> "file"]

\* the root directories: the default of --root and of find_cs_files' main,
\* a checkout below a directory named packages, a relative root named obj
Roots ==
    { << <<"/", "">>, <<"Users", "">>, <<"wangkanai", "">>,
         <<"Sources", "">>, <<"foundation", "">> >>,
      << <<"/", "">>, <<"work", "">>, <<"packages", "">>,
         <<"foundation", "">> >>,
      << <<"obj", "">> >> }

\* the entries a tree is made of
Candidates ==
    { File(<< <<"Program", "cs">> >>),
      File(<< <<"notes", "txt">> >>),
      Dir(<< <<"Views", "cs">> >>),
      Dir(<< <<"bin", "">> >>),
      File(<< <<"bin", "">>, <<"Debug", "cs">> >>),
      Dir(<< <<"TestResults", "">> >>),
      File(<< <<"TestResults", "">>, <<"Run", "cs">> >>),
      Dir(<< <<"lib", "">> >>),
      File(<< <<"lib", "">>, <<"Util", "cs">> >>),
      Dir(<< <<"lib", "">>, <<"obj", "">> >>),
      File(<< <<"lib", "">>, <<"obj", "">>, <<"Gen", "cs">> >>) }

\* every entry of t lies in a directory of t
IsTree(t) ==
    \A e \in t :
       \A n \in 1 .. Len(e.path) - 1 : Dir(SubSeq(e.path, 1, n)) \in t

InitScan ==
    /\ InitRunIdle
    /\ InitPassIdle
    /\ root_dir \in Roots
    /\ tree \in {t \in SUBSET Candidates : IsTree(t)}
    /\ scanned = {}
    /\ walked = {}
    /\ step = "input"

\* cs_files = self.get_cs_files()
GetCsFiles ==
    /\ step = "input"
    /\ scanned' = get_cs_files(root_dir, tree)
    /\ step' = "scanned"
    /\ UNCHANGED <<root_dir, tree, walked, runVars, passVars>>

\* cs_files = find_cs_files(project_root)
FindCsFiles ==
    /\ step = "scanned"
    /\ walked' = find_cs_files(root_dir, tree)
    /\ step' = "walked"
    /\ UNCHANGED <<root_dir, tree, scanned, runVars, passVars>>

NextScan ==
    \/ GetCsFiles
    \/ FindCsFiles

SpecScan == InitScan /\ [][NextScan]_vars

-----------------------------------------------------------------------------
(* Properties of the run (Spec) *)

\* what one pass makes of each content a file may hold
Rewritten == [c \in FileContents |-> modernize_patterns(c)]

\* number of matches the pass finds in file f as it was before the run
MatchCount(f) == Rewritten[orig[f]].replacements

RECURSIVE SumOver(_, _)
SumOver(fn, S) ==
    IF S = {} THEN 0
    ELSE LET x == CHOOSE y \in S : TRUE
         IN  fn[x] + SumOver(fn, S \ {x})

\* number of tokens t in s
RECURSIVE CountTok(_, _)
CountTok(s, t) ==
    IF s = <<>> THEN 0
    ELSE (IF Head(s) = t THEN 1 ELSE 0) + CountTok(Tail(s), t)

\* C1: a dry run never opens a file for writing and never changes a file:
\* in every state of a run with dry_run set, every file holds the content
\* it held before the run.
C1_DryRunPurity == dry_run => (disk = orig /\ opened = {})

\* a dry run that has finished and has found matches
C1_Witness == dry_run /\ pc = "done" /\ total_replacements > 0

\* C2: at every point of a run every file holds its complete original
\* content or its complete rewritten content, and a file whose processing
\* failed holds its original content.
C2_AtomicWriteBack ==
    /\ \A f \in Files :
          disk[f] = orig[f] \/ disk[f] = Rewritten[orig[f]].content
    /\ \A f \in errors : disk[f] = orig[f]

\* C6: a file that failed has no entry in changes_by_file, and after the
\* run the changed counts cover exactly the files that were written or,
\* in a dry run, would be written.
C6_FailedFilesExcluded ==
    /\ \A f \in errors : f \notin DOMAIN changes_by_file
    /\ pc = "done" =>
          /\ DOMAIN changes_by_file = reported
          /\ total_files_changed = Cardinality(reported)
          /\ total_replacements = SumOver(changes_by_file, reported)

\* file f holds what a run in which nothing fails leaves in it
EndsAsAlone(f) ==
    disk[f] = IF ~dry_run /\ MatchCount(f) > 0
              THEN Rewritten[orig[f]].content
              ELSE orig[f]

\* C7: an error on one file never ends the run: before the summary a next
\* step is always possible, at the end every file the scanner returned
\* has been attempted, and every file without an error of its own is as a
\* run without any failure leaves it.
C7_FailureIsolation ==
    /\ pc # "done" => ENABLED Next
    /\ pc = "done" =>
          /\ attempted = {cs_files[i] : i \in 1 .. Len(cs_files)}
          /\ \A f \in Files \ errors : EndsAsAlone(f)

\* a finished run in which a file failed and a later file was rewritten
C7_Witness ==
    /\ pc = "done"
    /\ \E f \in errors : \E g \in Files \ errors :
          f < g /\ g \in reported /\ disk[g] # orig[g]

\* C8: the run ends with exit code 0 exactly when no file failed.
C8_ExitStatus == pc = "done" => (exit_code = 0 <=> errors = {})

\* C9: after a run, files processed is the number of files the scanner
\* returned, files changed the number of entries of changes_by_file, total
\* replacements the sum of the per-file counts, each per-file count the
\* number of canonical calls the pass put into the file, and files changed
\* is at most files processed.
C9_ReportCounts ==
    pc = "done" =>
       /\ total_files_processed = Len(cs_files)
       /\ total_files_changed = Cardinality(DOMAIN changes_by_file)
       /\ total_replacements =
             SumOver(changes_by_file, DOMAIN changes_by_file)
       /\ \A f \in DOMAIN changes_by_file :
             changes_by_file[f] =
                CountTok(Rewritten[orig[f]].content, "ThrowIfNull")
                - CountTok(orig[f], "ThrowIfNull")
       /\ total_files_changed <= total_files_processed

\* C10: a file without a match is never opened for writing, keeps its
\* content, is not reported as changed and has no part in the changed
\* counts; a file is opened for writing only if it has a match and the
\* run is not a dry run.
C10_NoMatchNoWrite ==
    /\ \A f \in Files :
          MatchCount(f) = 0 =>
             /\ disk[f] = orig[f]
             /\ f \notin opened
             /\ f \notin reported
             /\ f \notin DOMAIN changes_by_file
    /\ \A f \in opened : MatchCount(f) > 0 /\ ~dry_run
    /\ total_files_changed = Cardinality(DOMAIN changes_by_file)
    /\ total_replacements =
          SumOver(changes_by_file, DOMAIN changes_by_file)

\* a finished apply run with a file of canonical calls only, left alone,
\* and a file that was rewritten
C10_Witness ==
    /\ pc = "done" /\ ~dry_run
    /\ \E f \in attempted \ errors :
          MatchCount(f) = 0 /\ CountTok(orig[f], "ThrowIfNull") > 0
    /\ \E g \in reported : disk[g] # orig[g]

-----------------------------------------------------------------------------
(* Properties of one pass (SpecPass) *)

\* C3: the pass applied to its own output changes nothing and counts no
\* replacement, for modernize_patterns and for the loop over OLD_PATTERNS.
C3_Idempotence ==
    /\ phase \notin {"input", "first"} =>
          second.content = first.content /\ second.replacements = 0
    /\ phase \in {"oldSecond", "searched", "traced", "oldTraced"} =>
          oldSecond.content = oldFirst.content /\ oldSecond.replacements = 0

\* a second pass over a content in which the first replaced two idioms
C3_Witness ==
    /\ phase = "second"
    /\ first.replacements >= 2
    /\ first.content # content

\* C4: a content in which every null-check idiom tests one identifier and
\* names another in the exception is returned unchanged with 0
\* replacements.
C4_IdentifierConsistency ==
    (/\ phase # "input"
     /\ \A i \in DOMAIN source :
           source[i].kind = "idiom" => source[i].a # source[i].b)
    => (first.replacements = 0 /\ first.content = content)

\* C5: no two entries of the result list of find_old_patterns have
\* intersecting spans.
C5_NonOverlap ==
    phase \in {"searched", "traced", "oldTraced"} =>
       \A i, j \in DOMAIN found :
          i < j => \/ found[i].end <= found[j].start
                   \/ found[j].end <= found[i].start

\* the positions of the input content that lie in a replaced match of t
ReplacedPositions(t) ==
    UNION {{t.replaced[j].from[i] : i \in DOMAIN t.replaced[j].from}
              : j \in DOMAIN t.replaced}

\* every replaced match of the traced pass t consists of consecutive tokens
\* of the input content and is a match of its pattern there, and the
\* tokens outside the replaced matches are the tokens of the output with an
\* origin, unchanged and in order
SnapshotPass(t, pats, ic) ==
    /\ \A j \in DOMAIN t.replaced :
          LET o == t.replaced[j].from
              k == t.replaced[j].pattern
          IN  /\ o[1] >= 1
              /\ \A i \in DOMAIN o : o[i] = o[1] + i - 1
              /\ \E m \in MatchAt(pats[k], content, o[1], ic) :
                    m[1] = o[1] + Len(o)
    /\ \A i \in DOMAIN t.origin :
          t.origin[i] # 0 => t.content[i] = content[t.origin[i]]
    /\ \A i, j \in DOMAIN t.origin :
          (i < j /\ t.origin[i] # 0 /\ t.origin[j] # 0) =>
             t.origin[i] < t.origin[j]
    /\ {t.origin[i] : i \in DOMAIN t.origin} \ {0} =
          (1 .. Len(content)) \ ReplacedPositions(t)

\* C11: in one pass of modernize_patterns, and in one pass of the loop of
\* modernize_file, every match that is replaced consists of consecutive
\* tokens of the input content, none of them produced by a replacement,
\* and is a match of its pattern in the input content; the tokens outside
\* the replaced matches are copied to the output unchanged and in order.
C11_SnapshotSemantics ==
    /\ phase \in {"traced", "oldTraced"} =>
          /\ trace.content = first.content
          /\ Len(trace.replaced) = first.replacements
          /\ SnapshotPass(trace, Patterns, TRUE)
    /\ phase = "oldTraced" =>
          /\ oldTrace.content = oldFirst.content
          /\ Len(oldTrace.replaced) = oldFirst.replacements
          /\ SnapshotPass(oldTrace, OLD_PATTERNS, FALSE)

\* both passes have run; in the first, two different patterns replaced a
\* match, the later one on a content the earlier one had rewritten, and
\* text was copied; the second replaced a match too
C11_Witness ==
    /\ phase = "oldTraced"
    /\ \E i, j \in DOMAIN trace.replaced :
          trace.replaced[i].pattern < trace.replaced[j].pattern
    /\ \E i \in DOMAIN trace.origin : trace.origin[i] # 0
    /\ oldTrace.replaced # <<>>

-----------------------------------------------------------------------------
(* Properties of the scan (SpecScan) *)

\* the files below the root whose name ends in .cs and which lie in no
\* directory, below the root, with an excluded name
SourceFiles ==
    {Parts(root_dir, e) : e \in
        {f \in tree :
            /\ f.kind = "file"
            /\ EndsWithCs(Name(f))
            /\ \A i \in 1 .. Len(f.path) - 1 :
                  f.path[i] \notin excluded_dirs}}

\* C12: get_cs_files returns exactly the files below the root whose name
\* ends in .cs and which lie in no directory, below the root, named bin,
\* obj, .git, .vs, packages, node_modules or TestResults, whatever the
\* names of the root and of its ancestors are.
C12_ScannerFileSet ==
    step \in {"scanned", "walked"} => scanned = SourceFiles

=============================================================================
